---- MODULE Spec2Model ----
(***************************************************************************)
(* A model of the gNB-CU-CP worker of alsoran: start-up and shutdown of   *)
(* the worker (gnb-cu-cp/src/worker.rs), the refreshes it sends to the    *)
(* coordinator, and the GNB-CU Configuration Update workflow               *)
(* (gnb-cu-cp/src/workflows/gnb_cu_configuration_update.rs), the NG Setup   *)
(* workflow (gnb-cu-cp/src/workflows/ng_setup.rs) and the worker's pending *)
(* RRC transactions.                                                       *)
(*                                                                         *)
(* Time.  The refresh interval is measured in ticks.  A step of a task    *)
(* that does not wait for anything outside the worker takes no time: Tick *)
(* is disabled while such a step is enabled.  A step that waits for the   *)
(* outside world (a call to the coordinator, an F1AP response, a listener *)
(* or a graceful shutdown) takes any amount of time.  Only two durations  *)
(* are kept: what is left of the periodic task's timer, and the time      *)
(* since the stop token fired, which saturates one tick after the         *)
(* interval.                                                               *)
(***************************************************************************)
EXTENDS Integers, Sequences, FiniteSets, TLC

\* Ticks of one refresh interval (interval_secs of worker.rs:194, scaled).
IntervalTicks == 2

\* Number of GNB-CU Configuration Update workflows that are run.
MaxWorkflows == 1

\* Upper limit of the per-task count of refreshes sent.
MaxSent == 2

\* Number of times the NG Setup workflow is run.
MaxNgSetups == 2

\* Number of callers that enter the GNB-CU Configuration Update workflow on
\* their own, without waiting for one another.
MaxCallers == 2

\* Number of UE keys, and of RRC transactions that are created.
MaxUeKeys == 2
MaxTxns == 3

\* Number of distinct UE state values, and the longest ttl, in ticks.
MaxUeStates == 2
MaxTtl == 2

\* Largest srb_id given to send_rrc_to_ue, and the number of downlink RRC
\* messages sent to attached UEs.
MaxSrbId == 1
MaxDl == 1

\* Largest transaction id a PDU of the peer carries, and the number of PDUs
\* the DU sends of its own accord.
MaxTransactionId == 2
MaxUnsolicited == 1

Workflows == 1..MaxWorkflows
UeStates == 1..MaxUeStates
Ttls == 1..MaxTtl
NgSetups == 1..MaxNgSetups
Callers == 1..MaxCallers
UeKeys == 1..MaxUeKeys
Txns == 1..MaxTxns
TransactionIds == 1..MaxTransactionId
SrbIds == 0..MaxSrbId

\* The three kinds of PDU; the last two answer a request.
Outcomes == {"SuccessfulOutcome", "UnsuccessfulOutcome"}
PduKinds == {"InitiatingMessage"} \cup Outcomes
\* re is history: the caller whose request the PDU answers, 0 for none.
NoPdu == [kind |-> "none", tid |-> 0, re |-> 0]

\* Before the first send_rrc_to_ue.
NoDl == [key |-> 0, srb_id |-> 0, rrc_container |-> "none", sent |-> <<>>]

\* The periodic refresh task, and the associate_connection task of workflow i.
Periodic == 0
Tasks == {Periodic} \cup Workflows

NoRead == [ng |-> {}, f1 |-> {}, e1 |-> {}]
NoFlags == [ng_up |-> FALSE, f1_up |-> FALSE, e1_up |-> FALSE]

VARIABLES
  style,            \* config.connection_style
  wPc,              \* position of the thread running start_servers and run
  spawnRet,         \* what spawn returned: "none", "Ok", "Err"
  coordStarted,     \* the embedded coordinator is running (Autonomous)
  shutdown_handles, \* Worker.shutdown_handles
  shLock,           \* holder of the shutdown_handles mutex: "free", "run"
  shutting,         \* handle whose graceful_shutdown run is awaiting
  listening,        \* listeners that are up
  startOrder,       \* history: start-up steps, in the order they succeeded
  shutOrder,        \* history: completed graceful shutdowns, in order
  stopped,          \* the stop token has fired
  sinceStop,        \* ticks since it fired
  addrs,            \* remote_tnla_addresses of each stack
  tPc,              \* position of each refreshing task
  tFlags,           \* ng_up, f1_up, e1_up of the refresh a task is building
  tRead,            \* history: the addresses each flag was computed from
  tSeen,            \* history: per task that is computing its flags, the
                    \* up-states the three stacks had since its first
                    \* read that have the values of the flags computed
  tSent,            \* history: refreshes sent by each task
  tRes,             \* result of the last refresh call of each task
  tWarned,          \* the last refresh call of the task logged a warning
  perLeft,          \* ticks left on the periodic task's timer
  wfPc,             \* position of each configuration update workflow
  wfAcked,          \* history: its F1AP request returned the acknowledge
  coordWaiting,     \* workflow the coordinator's request fiber waits on, or 0
  lateRefresh,      \* history: the coordinator received a RefreshWorker
                    \* more than one interval after the stop
  sentBeforeStop,   \* history: a refresh was sent before the stop
  perAtStop,        \* history: the periodic task was running when the stop fired
  ngPc,             \* position of each run of ng_setup
  ngRes,            \* history: what its calls into the NGAP stack returned
  ngSent,           \* history: runs that handed an NgSetupRequest to the stack
  ngInfo,           \* history: runs that logged "NGAP interface initialized"
  updPc,            \* position of each caller's configuration update
  updTid,           \* transaction_id of the request it has outstanding, or 0
  rrc_transactions, \* Worker.rrc_transactions: pending <<UE key, transaction>>
  txKey,            \* UE key each RRC transaction was created for, or 0
  txGot,            \* history: uplink messages delivered to each transaction
  txReplaced,       \* history: transactions whose entry a newer one replaced
  txDropped,        \* history: transactions that timed out or were dropped
  lastUl,           \* history: UE key of the last UlDcchMessage, the
                    \* transaction it was delivered to (0: unsolicited)
                    \* and its kind
  ue_store,         \* Worker.ue_store: per key <<state, ttl left>> or <<>>
  ueGhost,          \* history: per key the last state stored, its ttl and
                    \* age, and whether the key was deleted since
  lastOp,           \* history: the last call of store, retrieve or delete
  uePc,             \* position of the attach or release workflow of each UE
  f1Dl,             \* history: the DlRrcMessageTransfers sent on F1AP
  duKnows,          \* the gnb_cu_ue_f1ap_ids the DU has learned
  relComplete,      \* history: UEs whose UeContextReleaseComplete arrived
  lastDl,           \* history: the arguments of the last send_rrc_to_ue and
                    \* the PDUs it sent, each with the stack it went to
  dlCount,          \* number of downlink RRC messages sent after attach
  f1Pending,        \* pending-transaction table of the F1AP stack: one
                    \* entry per waiting request, with its transaction id
  f1Wire,           \* PDUs on their way from the DU to the F1AP stack
  duSent,           \* number of PDUs the DU sent of its own accord
  f1Got,            \* per caller the PDU put into its delivery slot
  f1Handled,        \* history: kinds of PDU handed to the F1AP handler
  f1Rx,             \* history: what the stack did with the PDU it
                    \* received last, and the request that PDU answers
  updAfter          \* history: per caller the callers whose request had
                    \* been dropped when it made its own

lifeVars == <<style, wPc, spawnRet, coordStarted, shutdown_handles, shLock,
              shutting, listening, startOrder, shutOrder>>
stopVars == <<stopped, sinceStop>>
taskVars == <<tPc, tFlags, tRead, tSent, tRes, tWarned, perLeft>>
wfVars == <<wfPc, wfAcked>>
coordVars == <<coordWaiting, lateRefresh>>
histVars == <<sentBeforeStop, perAtStop>>
ngVars == <<ngPc, ngRes, ngSent, ngInfo>>
updVars == <<updPc, updTid>>
rrcVars == <<rrc_transactions, txKey, txGot, txReplaced, txDropped, lastUl>>
storeVars == <<ue_store, ueGhost, lastOp>>
ueVars == <<uePc, f1Dl, duKnows, relComplete, lastDl, dlCount>>
stackVars == <<f1Pending, f1Wire, duSent, f1Got, f1Handled, f1Rx, updAfter>>
sigVars == <<ngVars, updVars, rrcVars, storeVars, ueVars, stackVars>>
\* Everything but the associations and sigVars.
workerVars == <<lifeVars, stopVars, taskVars, wfVars, coordVars, histVars>>

vars == <<style, wPc, spawnRet, coordStarted, shutdown_handles, shLock,
          shutting, listening, startOrder, shutOrder, stopped, sinceStop,
          addrs, tPc, tFlags, tRead, tSeen, tSent, tRes, tWarned, perLeft,
          wfPc, wfAcked, coordWaiting, lateRefresh, sentBeforeStop,
          perAtStop, ngPc, ngRes, ngSent, ngInfo, updPc, updTid,
          rrc_transactions, txKey, txGot, txReplaced, txDropped, lastUl,
          ue_store, ueGhost, lastOp, uePc, f1Dl, duKnows, relComplete,
          lastDl, dlCount,
          f1Pending, f1Wire, duSent, f1Got, f1Handled, f1Rx, updAfter>>

ConnectionStyle == {"Autonomous", "Coordinated"}

\* retrieve found nothing: no UeState.
NotFound == 0
NoGhost == [val |-> NotFound, ttl |-> 0, age |-> 0, deleted |-> FALSE,
            stored |-> FALSE]
NoOp == [op |-> "none", k |-> 0, res |-> "none", val |-> NotFound,
         prior |-> "none"]

\* spawn, as far as its match on config.connection_style; Worker::new.
Init ==
  /\ style \in ConnectionStyle
  /\ wPc = "spawn"
  /\ spawnRet = "none"
  /\ coordStarted = FALSE
  /\ shutdown_handles = <<>>
  /\ shLock = "free"
  /\ shutting = "none"
  /\ listening = {}
  /\ startOrder = <<>>
  /\ shutOrder = <<>>
  /\ stopped = FALSE
  /\ sinceStop = 0
  /\ addrs = [s \in {"ngap", "f1ap", "e1ap"} |-> {}]
  /\ tPc = [t \in Tasks |-> "none"]
  /\ tFlags = [t \in Tasks |-> NoFlags]
  /\ tRead = [t \in Tasks |-> NoRead]
  /\ tSeen = [t \in Tasks |-> {}]
  /\ tSent = [t \in Tasks |-> 0]
  /\ tRes = [t \in Tasks |-> "none"]
  /\ tWarned = [t \in Tasks |-> FALSE]
  /\ perLeft = 0
  /\ wfPc = [i \in Workflows |-> "idle"]
  /\ wfAcked = [i \in Workflows |-> FALSE]
  /\ coordWaiting = 0
  /\ lateRefresh = FALSE
  /\ sentBeforeStop = FALSE
  /\ perAtStop = FALSE
  /\ ngPc = [j \in NgSetups |-> "idle"]
  /\ ngRes = [j \in NgSetups |-> <<>>]
  /\ ngSent = {}
  /\ ngInfo = {}
  /\ updPc = [c \in Callers |-> "idle"]
  /\ updTid = [c \in Callers |-> 0]
  /\ rrc_transactions = {}
  /\ txKey = [n \in Txns |-> 0]
  /\ txGot = [n \in Txns |-> 0]
  /\ txReplaced = {}
  /\ txDropped = {}
  /\ lastUl = <<0, 0, "none">>
  /\ ue_store = [k \in UeKeys |-> <<>>]
  /\ ueGhost = [k \in UeKeys |-> NoGhost]
  /\ lastOp = NoOp
  /\ uePc = [k \in UeKeys |-> "none"]
  /\ f1Dl = {}
  /\ duKnows = {}
  /\ relComplete = {}
  /\ lastDl = NoDl
  /\ dlCount = 0
  /\ f1Pending = {}
  /\ f1Wire = {}
  /\ duSent = 0
  /\ f1Got = [c \in Callers |-> NoPdu]
  /\ f1Handled = {}
  /\ f1Rx = [res |-> "none", re |-> 0]
  /\ updAfter = [c \in Callers |-> {}]

----------------------------------------------------------------------------
\* The up-state of the stacks, as send_refresh_worker computes it.

\* The negation left out.
UpInverted(a) == a = {}

\* !remote_tnla_addresses().await.is_empty()
Up(a) == a # {}

\* The up-state of the three stacks when their associations are a.
UpState(a) ==
  [ng_up |-> Up(a["ngap"]), f1_up |-> Up(a["f1ap"]), e1_up |-> Up(a["e1ap"])]

\* An up-state has the values of the flags that task t has computed so far.
Agrees(t, v) ==
  /\ v.ng_up = tFlags[t].ng_up
  /\ tPc[t] = "read_e1" => v.f1_up = tFlags[t].f1_up

\* The associations become a while tasks are between their reads.
Observe(a) ==
  [t \in Tasks |-> IF tPc[t] \in {"read_f1", "read_e1"}
                     THEN tSeen[t] \cup {v \in {UpState(a)} : Agrees(t, v)}
                     ELSE tSeen[t]]

----------------------------------------------------------------------------
\* Start-up: spawn and Worker::start_servers.

\* The Autonomous arm without Coordinator::new ahead of the worker.
SpawnBeginNoCoordinator ==
  /\ wPc = "spawn"
  /\ wPc' = "serve_f1ap"
  /\ IF style = "Autonomous"
       THEN spawnRet' = "Ok"
       ELSE UNCHANGED spawnRet
  /\ UNCHANGED <<style, coordStarted, shutdown_handles, shLock, shutting,
                 listening, startOrder, shutOrder, stopVars, addrs, taskVars,
                 wfVars, coordVars, histVars, sigVars, tSeen>>

\* spawn's match arm.  Autonomous starts the embedded coordinator, spawns the
\* task that runs serve, and returns Ok at once; Coordinated goes on to await
\* start_servers itself.
SpawnBegin ==
  /\ wPc = "spawn"
  /\ wPc' = "serve_f1ap"
  /\ IF style = "Autonomous"
       THEN coordStarted' = TRUE /\ spawnRet' = "Ok"
       ELSE UNCHANGED <<coordStarted, spawnRet>>
  /\ UNCHANGED <<style, shutdown_handles, shLock, shutting, listening,
                 startOrder, shutOrder, stopVars, addrs, taskVars, wfVars,
                 coordVars, histVars, sigVars, tSeen>>

\* Vec::push under the shutdown_handles mutex.
add_shutdown_handle(h) ==
  /\ shLock = "free"
  /\ shutdown_handles' = Append(shutdown_handles, h)

\* An error of start_servers: `?` returns it.  In spawn's Coordinated arm `?`
\* returns it again; in the Autonomous task serve's result meets expect().
StartFailed ==
  /\ IF style = "Coordinated"
       THEN wPc' = "failed" /\ spawnRet' = "Err"
       ELSE wPc' = "panicked" /\ UNCHANGED spawnRet
  /\ UNCHANGED <<shutdown_handles, listening, startOrder>>

\* start_servers without its Connection API step.
AfterE1apNoApi == "started"

\* The step of start_servers that follows the E1AP listener.
AfterE1ap == IF style = "Coordinated" THEN "serve_connection_api" ELSE "started"

\* One listener of start_servers: serve_x().await? then add_shutdown_handle.
StartListener(pc, h, next, ok) ==
  /\ wPc = pc
  /\ IF ok
       THEN /\ add_shutdown_handle(h)
            /\ listening' = listening \cup {h}
            /\ startOrder' = Append(startOrder, h)
            /\ wPc' = next
            /\ UNCHANGED spawnRet
       ELSE StartFailed
  /\ UNCHANGED <<style, coordStarted, shLock, shutting, shutOrder, stopVars,
                 addrs, taskVars, wfVars, coordVars, histVars, sigVars,
                 tSeen>>

ServeF1ap(ok) == StartListener("serve_f1ap", "f1ap", "serve_e1ap", ok)

ServeE1ap(ok) == StartListener("serve_e1ap", "e1ap", AfterE1ap, ok)

ServeConnectionApi(ok) ==
  StartListener("serve_connection_api", "connection_api", "started", ok)

\* start_servers returned Ok.  Coordinated: spawn the task that runs run and
\* return the shutdown handle.  Autonomous: serve goes on to run.
StartServersOk ==
  /\ wPc = "started"
  /\ wPc' = "run"
  /\ spawnRet' = "Ok"
  /\ UNCHANGED <<style, coordStarted, shutdown_handles, shLock, shutting,
                 listening, startOrder, shutOrder, stopVars, addrs, taskVars,
                 wfVars, coordVars, histVars, sigVars, tSeen>>

----------------------------------------------------------------------------
\* Worker::run.

\* send_periodic_refreshes_to_coordinator: spawn the periodic task, whose loop
\* begins with send_refresh_worker, and return.
RunSpawnPeriodic ==
  /\ wPc = "run"
  /\ wPc' = "await_stop"
  /\ tPc' = [tPc EXCEPT ![Periodic] = "read_ng"]
  /\ startOrder' = Append(startOrder, "periodic")
  /\ UNCHANGED <<style, spawnRet, coordStarted, shutdown_handles, shLock,
                 shutting, listening, shutOrder, stopVars, addrs, tFlags,
                 tRead, tSent, tRes, tWarned, perLeft, wfVars, coordVars,
                 histVars, sigVars, tSeen>>

\* stop_token.await completes.
RunStopObserved ==
  /\ wPc = "await_stop"
  /\ stopped
  /\ wPc' = "drain"
  /\ UNCHANGED <<style, spawnRet, coordStarted, shutdown_handles, shLock,
                 shutting, listening, startOrder, shutOrder, stopVars, addrs,
                 taskVars, wfVars, coordVars, histVars, sigVars, tSeen>>

\* Taking the first element instead of the last.
PopIndexFront(v) == 1

\* Vec::pop takes the last element.
PopIndex(v) == Len(v)

\* The mutex guard made by the scrutinee of `while let` is a temporary that
\* lives to the end of the loop body: when pop gives Some it is still held
\* while graceful_shutdown is awaited, when it gives None it is dropped.
RunPop ==
  /\ wPc = "drain"
  /\ shLock = "free"
  /\ IF shutdown_handles = <<>>
       THEN /\ wPc' = "ngap_shutdown"
            /\ UNCHANGED <<shutdown_handles, shLock, shutting>>
       ELSE /\ shutting' = shutdown_handles[PopIndex(shutdown_handles)]
            /\ shutdown_handles' =
                 [k \in 1..(Len(shutdown_handles) - 1) |->
                    IF k < PopIndex(shutdown_handles)
                      THEN shutdown_handles[k] ELSE shutdown_handles[k + 1]]
            /\ shLock' = "run"
            /\ wPc' = "graceful"
  /\ UNCHANGED <<style, spawnRet, coordStarted, listening, startOrder,
                 shutOrder, stopVars, addrs, taskVars, wfVars, coordVars,
                 histVars, sigVars, tSeen>>

\* The stack a listener belongs to; the Connection API server has none.
StackOf(h) == IF h \in {"f1ap", "e1ap"} THEN {h} ELSE {}

\* An `if let` in place of the `while let`: only one handle is drained.
HandleShutdownDoneOnce ==
  /\ wPc = "graceful"
  /\ listening' = listening \ {shutting}
  /\ addrs' = [s \in DOMAIN addrs |->
                 IF s \in StackOf(shutting) THEN {} ELSE addrs[s]]
  /\ shutOrder' = Append(shutOrder, shutting)
  /\ shutting' = "none"
  /\ shLock' = "free"
  /\ wPc' = "ngap_shutdown"
  /\ UNCHANGED <<style, spawnRet, coordStarted, shutdown_handles, startOrder,
                 stopVars, taskVars, wfVars, coordVars, histVars, sigVars,
                 tSeen>>

\* item.graceful_shutdown() completes: the listener is gone and its stack's
\* associations are closed.  The loop body ends and the guard is dropped.
HandleShutdownDone ==
  /\ wPc = "graceful"
  /\ listening' = listening \ {shutting}
  /\ addrs' = [s \in DOMAIN addrs |->
                 IF s \in StackOf(shutting) THEN {} ELSE addrs[s]]
  /\ shutOrder' = Append(shutOrder, shutting)
  /\ shutting' = "none"
  /\ shLock' = "free"
  /\ wPc' = "drain"
  /\ UNCHANGED <<style, spawnRet, coordStarted, shutdown_handles, startOrder,
                 stopVars, taskVars, wfVars, coordVars, histVars, sigVars,
                 tSeen>>

\* self.ngap.graceful_shutdown() completes; run returns.  In the Autonomous
\* task the embedded coordinator's shutdown follows.
NgapShutdownDone ==
  /\ wPc = "ngap_shutdown"
  /\ addrs' = [addrs EXCEPT !["ngap"] = {}]
  /\ shutOrder' = Append(shutOrder, "ngap")
  /\ wPc' = IF style = "Autonomous" THEN "coordinator_shutdown" ELSE "done"
  /\ UNCHANGED <<style, spawnRet, coordStarted, shutdown_handles, shLock,
                 shutting, listening, startOrder, stopVars, taskVars, wfVars,
                 coordVars, histVars, sigVars, tSeen>>

\* coordinator_shutdown_handle.graceful_shutdown() completes.
CoordinatorShutdownDone ==
  /\ wPc = "coordinator_shutdown"
  /\ coordStarted' = FALSE
  /\ wPc' = "done"
  /\ UNCHANGED <<style, spawnRet, shutdown_handles, shLock, shutting,
                 listening, startOrder, shutOrder, stopVars, addrs, taskVars,
                 wfVars, coordVars, histVars, sigVars, tSeen>>

\* The owner of the ShutdownHandle that spawn returned triggers the stop.
StopFire ==
  /\ spawnRet = "Ok"
  /\ ~stopped
  /\ stopped' = TRUE
  /\ sinceStop' = 0
  /\ perAtStop' = (tPc[Periodic] \notin {"none", "exited"})
  /\ UNCHANGED <<lifeVars, addrs, taskVars, wfVars, coordVars, sentBeforeStop,
                 sigVars, tSeen>>

----------------------------------------------------------------------------
\* Associations of the three stacks.

\* The coordinator can call into the worker: over the Connection API of a
\* Coordinated worker, over the local channel of an Autonomous one.
CoordinatorReachesWorker ==
  \/ style = "Coordinated" /\ "connection_api" \in listening
  \/ style = "Autonomous" /\ coordStarted

\* The worker takes calls of the coordinator.
InService ==
  /\ CoordinatorReachesWorker
  /\ wPc \in {"serve_e1ap", "serve_connection_api", "started", "run",
              "await_stop", "drain", "graceful", "ngap_shutdown"}

\* The NG association opened by run j of ng_setup (0: by a run that is not
\* followed step by step).
AmfTnla(j) == <<"amf", j>>

\* Stack::connect, when it succeeds: initiate an outbound association.
StackConnect(tnlas, a) == tnlas \cup {a}

\* ngap_connect: Stack::connect to the AMF succeeds, made while the worker
\* has no NG association.
NgapConnectStep ==
  /\ InService
  /\ addrs["ngap"] = {}
  /\ addrs' = [addrs EXCEPT !["ngap"] = StackConnect(@, AmfTnla(0))]
  /\ UNCHANGED <<lifeVars, stopVars, taskVars, wfVars, coordVars, histVars,
                 sigVars>>

NgapConnect == NgapConnectStep /\ UNCHANGED tSeen

\* A DU connects to the F1AP listener (MockDu::perform_f1_setup).
DuConnectStep ==
  /\ "f1ap" \in listening
  /\ addrs' = [addrs EXCEPT !["f1ap"] = @ \cup {"du"}]
  /\ UNCHANGED <<lifeVars, stopVars, taskVars, wfVars, coordVars, histVars,
                 sigVars>>

DuConnect == DuConnectStep /\ UNCHANGED tSeen

\* A CU-UP connects to the E1AP listener.
CuUpConnectStep ==
  /\ "e1ap" \in listening
  /\ addrs' = [addrs EXCEPT !["e1ap"] = {"cu_up"}]
  /\ UNCHANGED <<lifeVars, stopVars, taskVars, wfVars, coordVars, histVars,
                 sigVars>>

CuUpConnect == CuUpConnectStep /\ UNCHANGED tSeen

\* The peer of a stack closes or resets its associations.
AssociationLostStep(s) ==
  /\ addrs[s] # {}
  /\ addrs' = [addrs EXCEPT ![s] = {}]
  /\ UNCHANGED <<lifeVars, stopVars, taskVars, wfVars, coordVars, histVars,
                 sigVars>>

AssociationLost(s) == AssociationLostStep(s) /\ UNCHANGED tSeen

----------------------------------------------------------------------------
\* send_refresh_worker, run by the periodic task and by every
\* associate_connection task.

ReadNgStep(t) ==
  /\ tPc[t] = "read_ng"
  /\ tFlags' = [tFlags EXCEPT ![t].ng_up = Up(addrs["ngap"])]
  /\ tRead' = [tRead EXCEPT ![t].ng = addrs["ngap"]]
  /\ tPc' = [tPc EXCEPT ![t] = "read_f1"]
  /\ UNCHANGED <<lifeVars, stopVars, addrs, tSent, tRes, tWarned, perLeft,
                 wfVars, coordVars, histVars, sigVars>>

ReadNg(t) == ReadNgStep(t) /\ UNCHANGED tSeen

ReadF1Step(t) ==
  /\ tPc[t] = "read_f1"
  /\ tFlags' = [tFlags EXCEPT ![t].f1_up = Up(addrs["f1ap"])]
  /\ tRead' = [tRead EXCEPT ![t].f1 = addrs["f1ap"]]
  /\ tPc' = [tPc EXCEPT ![t] = "read_e1"]
  /\ UNCHANGED <<lifeVars, stopVars, addrs, tSent, tRes, tWarned, perLeft,
                 wfVars, coordVars, histVars, sigVars>>

ReadF1(t) == ReadF1Step(t) /\ UNCHANGED tSeen

\* The last read, and the call of coordinator.refresh_worker that follows it
\* without a suspension point: the RefreshWorker is on its way.
ReadE1AndSendStep(t) ==
  /\ tPc[t] = "read_e1"
  /\ t \in Workflows => tSent[t] < MaxSent
  /\ tFlags' = [tFlags EXCEPT ![t].e1_up = Up(addrs["e1ap"])]
  /\ tRead' = [tRead EXCEPT ![t].e1 = addrs["e1ap"]]
  /\ tPc' = [tPc EXCEPT ![t] = "call"]
  /\ tSent' = [tSent EXCEPT ![t] = IF t = Periodic THEN 1 ELSE @ + 1]
  /\ sentBeforeStop' = (sentBeforeStop \/ ~stopped)
  /\ UNCHANGED <<lifeVars, stopVars, addrs, tRes, tWarned, perLeft, wfVars,
                 coordVars, perAtStop, sigVars>>

ReadE1AndSend(t) == ReadE1AndSendStep(t) /\ UNCHANGED tSeen

\* The coordinator takes a RefreshWorker off the wire and answers it.  Its
\* request fiber cannot do so while it waits for the worker to return from a
\* workflow.
CoordinatorReceive(t) ==
  /\ tPc[t] = "call"
  /\ coordWaiting = 0
  /\ style = "Autonomous" => coordStarted
  /\ tPc' = [tPc EXCEPT ![t] = "answered"]
  /\ tFlags' = [tFlags EXCEPT ![t] = NoFlags]
  /\ tRead' = [tRead EXCEPT ![t] = NoRead]
  /\ lateRefresh' = (lateRefresh \/ (stopped /\ sinceStop > IntervalTicks))
  /\ UNCHANGED <<lifeVars, stopVars, addrs, tSent, tRes, tWarned, perLeft,
                 wfVars, coordWaiting, histVars, sigVars, tSeen>>

\* What refresh_worker can return: Ok only from the coordinator's answer, an
\* ApiError from its answer or from the transport.
RefreshResults(t) == IF tPc[t] = "answered" THEN {"Ok", "Err"} ELSE {"Err"}

\* A failed refresh that ends the loop.
PeriodicRefreshReturnedBreak(res) ==
  /\ tPc[Periodic] \in {"call", "answered"}
  /\ res \in RefreshResults(Periodic)
  /\ tRes' = [tRes EXCEPT ![Periodic] = res]
  /\ tWarned' = [tWarned EXCEPT ![Periodic] = (res = "Err")]
  /\ tPc' = [tPc EXCEPT ![Periodic] = IF res = "Err" THEN "exited" ELSE "wait"]
  /\ perLeft' = IF res = "Err" THEN 0 ELSE IntervalTicks
  /\ tFlags' = [tFlags EXCEPT ![Periodic] = NoFlags]
  /\ tRead' = [tRead EXCEPT ![Periodic] = NoRead]
  /\ UNCHANGED <<lifeVars, stopVars, addrs, tSent, wfVars, coordVars,
                 histVars, sigVars, tSeen>>

\* The periodic task's loop body after send_refresh_worker returned: warn on
\* Err, then timeout(interval_secs, stop_token).
PeriodicRefreshReturned(res) ==
  /\ tPc[Periodic] \in {"call", "answered"}
  /\ res \in RefreshResults(Periodic)
  /\ tRes' = [tRes EXCEPT ![Periodic] = res]
  /\ tWarned' = [tWarned EXCEPT ![Periodic] = (res = "Err")]
  /\ tPc' = [tPc EXCEPT ![Periodic] = "wait"]
  /\ perLeft' = IntervalTicks
  /\ tFlags' = [tFlags EXCEPT ![Periodic] = NoFlags]
  /\ tRead' = [tRead EXCEPT ![Periodic] = NoRead]
  /\ UNCHANGED <<lifeVars, stopVars, addrs, tSent, wfVars, coordVars,
                 histVars, sigVars, tSeen>>

\* The loop left when the interval has elapsed, as well as on the token.
PeriodicWakeBreaks ==
  /\ tPc[Periodic] = "wait"
  /\ stopped \/ perLeft = 0
  /\ tPc' = [tPc EXCEPT ![Periodic] = "exited"]
  /\ perLeft' = 0
  /\ UNCHANGED <<lifeVars, stopVars, addrs, tFlags, tRead, tSent, tRes,
                 tWarned, wfVars, coordVars, histVars, sigVars, tSeen>>

\* timeout(..., stop_token).await: Ok when the token has fired, which breaks
\* the loop; Err when the interval elapsed first, which repeats it.
PeriodicWake ==
  /\ tPc[Periodic] = "wait"
  /\ stopped \/ perLeft = 0
  /\ tPc' = [tPc EXCEPT ![Periodic] = IF stopped THEN "exited" ELSE "read_ng"]
  /\ perLeft' = 0
  /\ UNCHANGED <<lifeVars, stopVars, addrs, tFlags, tRead, tSent, tRes,
                 tWarned, wfVars, coordVars, histVars, sigVars, tSeen>>

\* A failed refresh that is sent again.
AssociateRefreshReturnedRetry(i, res) ==
  /\ tPc[i] \in {"call", "answered"}
  /\ res \in RefreshResults(i)
  /\ tRes' = [tRes EXCEPT ![i] = res]
  /\ tWarned' = [tWarned EXCEPT ![i] = (res = "Err")]
  /\ tPc' = [tPc EXCEPT ![i] = IF res = "Err" THEN "read_ng" ELSE "done"]
  /\ tFlags' = [tFlags EXCEPT ![i] = NoFlags]
  /\ tRead' = [tRead EXCEPT ![i] = NoRead]
  /\ UNCHANGED <<lifeVars, stopVars, addrs, tSent, perLeft, wfVars, coordVars,
                 histVars, sigVars, tSeen>>

\* The future of associate_connection after send_refresh_worker returned:
\* warn on Err, and complete.
AssociateRefreshReturned(i, res) ==
  /\ tPc[i] \in {"call", "answered"}
  /\ res \in RefreshResults(i)
  /\ tRes' = [tRes EXCEPT ![i] = res]
  /\ tWarned' = [tWarned EXCEPT ![i] = (res = "Err")]
  /\ tPc' = [tPc EXCEPT ![i] = "done"]
  /\ tFlags' = [tFlags EXCEPT ![i] = NoFlags]
  /\ tRead' = [tRead EXCEPT ![i] = NoRead]
  /\ UNCHANGED <<lifeVars, stopVars, addrs, tSent, perLeft, wfVars, coordVars,
                 histVars, sigVars, tSeen>>

----------------------------------------------------------------------------
\* Workflow::gnb_cu_configuration_update.

\* What f1ap_request can return: the acknowledge, or a RequestError.
RequestErrors == {"NoAssociation", "Timeout", "UnsuccessfulOutcome", "PeerReset"}

\* The workflow is entered: it builds the GnbCuConfigurationUpdate and sends
\* it with f1ap_request.  It runs on behalf of the coordinator, whose request
\* fiber waits for it to return ("the coordinator is already waiting on us").
CfgInvoke(i) ==
  /\ wfPc[i] = "idle"
  /\ i > 1 => wfPc[i - 1] # "idle"
  /\ wPc \in {"run", "await_stop", "drain", "graceful"}
  /\ CoordinatorReachesWorker
  /\ coordWaiting = 0
  /\ coordWaiting' = i
  /\ wfPc' = [wfPc EXCEPT ![i] = "request"]
  /\ UNCHANGED <<lifeVars, stopVars, addrs, taskVars, wfAcked, lateRefresh,
                 histVars, sigVars, tSeen>>

\* The workflow returns to its caller.
CfgReturn(i, res) ==
  /\ wfPc' = [wfPc EXCEPT ![i] = res]
  /\ coordWaiting' = IF coordWaiting = i THEN 0 ELSE coordWaiting

\* The `?` left out: the result of the request is not looked at.
CfgRequestReturnedUnchecked(i, out) ==
  /\ wfPc[i] = "request"
  /\ wfAcked' = [wfAcked EXCEPT ![i] = (out = "Ack")]
  /\ IF out = "Ack"
       THEN /\ "f1ap" \in listening
            /\ addrs["f1ap"] # {}
            /\ addrs' = [addrs EXCEPT !["f1ap"] = @ \cup {"du_added"}]
       ELSE /\ out \in RequestErrors
            /\ UNCHANGED addrs
  /\ wfPc' = [wfPc EXCEPT ![i] = "acked"]
  /\ UNCHANGED <<lifeVars, stopVars, taskVars, coordWaiting, lateRefresh,
                 histVars, sigVars, tSeen>>

\* f1ap_request(...).await? returns.  An error is returned to the caller by
\* `?`.  The acknowledge comes from a connected DU, which has first opened
\* the association to the endpoint it was told to add
\* (MockDu::handle_cu_configuration_update).
CfgRequestReturned(i, out) ==
  /\ wfPc[i] = "request"
  /\ wfAcked' = [wfAcked EXCEPT ![i] = (out = "Ack")]
  /\ IF out = "Ack"
       THEN /\ "f1ap" \in listening
            /\ addrs["f1ap"] # {}
            /\ addrs' = [addrs EXCEPT !["f1ap"] = @ \cup {"du_added"}]
            /\ wfPc' = [wfPc EXCEPT ![i] = "acked"]
            /\ UNCHANGED coordWaiting
       ELSE /\ out \in RequestErrors
            /\ CfgReturn(i, "err")
            /\ UNCHANGED addrs
  /\ UNCHANGED <<lifeVars, stopVars, taskVars, lateRefresh, histVars, sigVars,
                 tSeen>>

\* associate_connection awaited inline: the workflow returns only when the
\* coordinator has answered the RefreshWorker.
CfgAwaitAssociate(i) ==
  /\ wfPc[i] = "acked"
  /\ coordWaiting = 0
  /\ tPc' = [tPc EXCEPT ![i] = "done"]
  /\ tSent' = [tSent EXCEPT ![i] = @ + 1]
  /\ tRes' = [tRes EXCEPT ![i] = "Ok"]
  /\ CfgReturn(i, "ok")
  /\ UNCHANGED <<lifeVars, stopVars, addrs, tFlags, tRead, tWarned, perLeft,
                 wfAcked, lateRefresh, histVars, sigVars, tSeen>>

\* async_std::task::spawn(self.associate_connection()); Ok(())
\* The detached task starts at send_refresh_worker.
CfgSpawnAssociate(i) ==
  /\ wfPc[i] = "acked"
  /\ tPc' = [tPc EXCEPT ![i] = "read_ng"]
  /\ CfgReturn(i, "ok")
  /\ UNCHANGED <<lifeVars, stopVars, addrs, tFlags, tRead, tSent, tRes,
                 tWarned, perLeft, wfAcked, lateRefresh, histVars, sigVars,
                 tSeen>>

\* transaction_id of the GnbCuConfigurationUpdate that the workflow builds.
CfgTransactionId == 1

\* The pending-transaction table of a stack, keyed by transaction id: request
\* installs a one-shot delivery slot under the id of the request it sends.
install(pend, tid, c) == pend \cup {[tid |-> tid, c |-> c]}

\* Dropping the request future removes its slot from the table.
remove(pend, c) == {e \in pend : e.c # c}

Matching(pend, p) == {e \in pend : e.tid = p.tid}

\* Every inbound PDU that matches no pending id goes to the handler.
dispatch_otherwise_to_handler(pend, p) ==
  IF p.kind \in Outcomes /\ Matching(pend, p) # {}
    THEN "completed"
    ELSE "handler"

\* What the stack does with an inbound PDU: an outcome with the id of a
\* pending request completes it, an outcome with no matching pending id is
\* logged and dropped, an InitiatingMessage goes to the handler.
dispatch(pend, p) ==
  IF p.kind \in Outcomes
    THEN IF Matching(pend, p) # {} THEN "completed" ELSE "dropped"
    ELSE "handler"

\* send_gnb_cu_configuration_update_acknowledge: the DU answers a
\* GnbCuConfigurationUpdate with an acknowledge that carries the transaction
\* id it received.
GnbCuConfigurationUpdateAcknowledge(transaction_id, c) ==
  [kind |-> "SuccessfulOutcome", tid |-> transaction_id, re |-> c]

\* A caller enters the workflow while other callers may be inside it: the
\* workflow takes &self and nothing in it waits for another run.  It builds
\* the GnbCuConfigurationUpdate and hands it, as built, to f1ap_request,
\* which sends it on the association to the DU if there is one and waits
\* for the slot under its transaction id.  The answer of the DU is then on
\* its way until the stack receives it.
UpdInvoke(c) ==
  /\ updPc[c] = "idle"
  /\ c > 1 => updPc[c - 1] # "idle"
  /\ InService
  /\ updPc' = [updPc EXCEPT ![c] = "request"]
  /\ updTid' = [updTid EXCEPT ![c] = CfgTransactionId]
  /\ f1Pending' = install(f1Pending, CfgTransactionId, c)
  /\ f1Wire' = IF addrs["f1ap"] # {}
                 THEN f1Wire \cup {GnbCuConfigurationUpdateAcknowledge(
                                     CfgTransactionId, c)}
                 ELSE f1Wire
  /\ updAfter' = [updAfter EXCEPT ![c] =
                    {d \in Callers : updPc[d] = "err" /\ f1Got[d] = NoPdu}]
  /\ UNCHANGED <<workerVars, addrs, ngVars, rrcVars, storeVars, ueVars,
                 duSent, f1Got, f1Handled, f1Rx, tSeen>>

\* The DU sends a PDU that answers no request of the worker.
DuSends(kind, tid) ==
  /\ InService
  /\ addrs["f1ap"] # {}
  /\ duSent < MaxUnsolicited
  /\ duSent' = duSent + 1
  /\ f1Wire' = f1Wire \cup {[kind |-> kind, tid |-> tid, re |-> 0]}
  /\ UNCHANGED <<workerVars, addrs, ngVars, updVars, rrcVars, storeVars,
                 ueVars, f1Pending, f1Got, f1Handled, f1Rx, updAfter, tSeen>>

\* The F1AP stack, listening since serve_f1ap with the F1apHandler installed,
\* receives a PDU and dispatches it.
F1apReceive(p) ==
  /\ p \in f1Wire
  /\ "f1ap" \in listening
  /\ f1Wire' = f1Wire \ {p}
  /\ f1Rx' = [res |-> dispatch(f1Pending, p), re |-> p.re]
  /\ CASE dispatch(f1Pending, p) = "completed" ->
            \E e \in Matching(f1Pending, p) :
              /\ f1Pending' = f1Pending \ {e}
              /\ f1Got' = [f1Got EXCEPT ![e.c] = p]
              /\ UNCHANGED f1Handled
       [] dispatch(f1Pending, p) = "handler" ->
            /\ f1Handled' = f1Handled \cup {p.kind}
            /\ UNCHANGED <<f1Pending, f1Got>>
       [] OTHER -> UNCHANGED <<f1Pending, f1Got, f1Handled>>
  /\ UNCHANGED <<workerVars, addrs, ngVars, updVars, rrcVars, storeVars,
                 ueVars, duSent, updAfter, tSeen>>

\* f1ap_request(...).await? returns to that caller, as in CfgRequestReturned:
\* with the outcome that was put into its slot, or with an error when the
\* wait ends without one, and then the future is dropped with its slot.
\* The associate_connection task that is spawned on Ok is followed there.
UpdRequestReturned(c, out) ==
  /\ updPc[c] = "request"
  /\ updTid' = [updTid EXCEPT ![c] = 0]
  /\ f1Pending' = remove(f1Pending, c)
  /\ IF out = "Ack"
       THEN /\ f1Got[c].kind = "SuccessfulOutcome"
            /\ "f1ap" \in listening
            /\ addrs["f1ap"] # {}
            /\ addrs' = [addrs EXCEPT !["f1ap"] = @ \cup {"du_added"}]
            /\ updPc' = [updPc EXCEPT ![c] = "ok"]
       ELSE /\ out \in RequestErrors
            /\ IF out = "UnsuccessfulOutcome"
                 THEN f1Got[c].kind = "UnsuccessfulOutcome"
                 ELSE f1Got[c] = NoPdu
            /\ updPc' = [updPc EXCEPT ![c] = "err"]
            /\ UNCHANGED addrs
  /\ UNCHANGED <<workerVars, ngVars, rrcVars, storeVars, ueVars, f1Wire,
                 duSent, f1Got, f1Handled, f1Rx, updAfter, tSeen>>

----------------------------------------------------------------------------
\* Workflow::ng_setup.

\* The Connection API handler enters the workflow, which calls ngap_connect.
NgSetupInvoke(j) ==
  /\ ngPc[j] = "idle"
  /\ j > 1 => ngPc[j - 1] # "idle"
  /\ InService
  /\ ngPc' = [ngPc EXCEPT ![j] = "connect"]
  /\ UNCHANGED <<workerVars, addrs, ngRes, ngSent, ngInfo, updVars, rrcVars,
                 storeVars, ueVars, stackVars, tSeen>>

\* The `?` after ngap_connect left out.
NgapConnectReturnedUnchecked(j, ok) ==
  /\ ngPc[j] = "connect"
  /\ ngRes' = [ngRes EXCEPT ![j] = <<IF ok THEN "Ok" ELSE "Err">>]
  /\ addrs' = IF ok
               THEN [addrs EXCEPT !["ngap"] = StackConnect(@, AmfTnla(j))]
               ELSE addrs
  /\ ngSent' = ngSent \cup {j}
  /\ ngPc' = [ngPc EXCEPT ![j] = "request"]
  /\ UNCHANGED <<workerVars, ngInfo, updVars, rrcVars, storeVars, ueVars,
                 stackVars, tSeen>>

\* ngap_connect(...).await.map_err(...)? returns.  ngap_connect calls
\* Stack::connect whatever associations the stack has.  On Ok the workflow
\* builds the NgSetupRequest, logs it and hands it to ngap_request; on Err
\* `?` returns "Failed to connect to AMF".
NgapConnectReturned(j, ok) ==
  /\ ngPc[j] = "connect"
  /\ ngRes' = [ngRes EXCEPT ![j] = <<IF ok THEN "Ok" ELSE "Err">>]
  /\ IF ok
       THEN /\ addrs' = [addrs EXCEPT !["ngap"] = StackConnect(@, AmfTnla(j))]
            /\ ngSent' = ngSent \cup {j}
            /\ ngPc' = [ngPc EXCEPT ![j] = "request"]
       ELSE /\ ngPc' = [ngPc EXCEPT ![j] = "err"]
            /\ UNCHANGED <<addrs, ngSent>>
  /\ UNCHANGED <<workerVars, ngInfo, updVars, rrcVars, storeVars, ueVars,
                 stackVars, tSeen>>

\* The success log written ahead of the `?` on the response.
NgapRequestReturnedLogFirst(j, out) ==
  /\ ngPc[j] = "request"
  /\ ngRes' = [ngRes EXCEPT ![j] = Append(@, out)]
  /\ ngInfo' = ngInfo \cup {j}
  /\ IF out = "NgSetupResponse"
       THEN /\ addrs["ngap"] # {}
            /\ ngPc' = [ngPc EXCEPT ![j] = "ok"]
       ELSE /\ out \in RequestErrors
            /\ ngPc' = [ngPc EXCEPT ![j] = "err"]
  /\ UNCHANGED <<workerVars, addrs, ngSent, updVars, rrcVars, storeVars,
                 ueVars, stackVars, tSeen>>

\* ngap_request::<NgSetupProcedure>(...).await? returns.  The response comes
\* over an NG association; then the workflow logs "NGAP interface
\* initialized" and returns Ok.  A RequestError is returned by `?`.
NgapRequestReturned(j, out) ==
  /\ ngPc[j] = "request"
  /\ ngRes' = [ngRes EXCEPT ![j] = Append(@, out)]
  /\ IF out = "NgSetupResponse"
       THEN /\ addrs["ngap"] # {}
            /\ ngInfo' = ngInfo \cup {j}
            /\ ngPc' = [ngPc EXCEPT ![j] = "ok"]
       ELSE /\ out \in RequestErrors
            /\ ngPc' = [ngPc EXCEPT ![j] = "err"]
            /\ UNCHANGED ngInfo
  /\ UNCHANGED <<workerVars, addrs, ngSent, updVars, rrcVars, storeVars,
                 ueVars, stackVars, tSeen>>

----------------------------------------------------------------------------
\* The pending RRC transactions: Worker::new_rrc_transaction and
\* Worker::match_rrc_transaction over PendingRrcTransactions.

\* The id the DU gave the UE: a number of the DU's own choosing.
DuUeId(k) == (k % MaxUeKeys) + 1

\* The UeState of the UE with key k, as far as its two ids.
UeState(k) == [key |-> k, gnb_du_ue_f1ap_id |-> DuUeId(k)]

\* The entries pending for a UE key.
PendingFor(pend, k) == {e \in pend : e[1] = k}

\* The new entry is added and a prior one for the key is left in place.
new_transaction_push(pend, k, n) == pend \cup {<<k, n>>}

\* PendingRrcTransactions::new_transaction: register the slot of transaction
\* n for the key, in place of any prior entry for the same key.
new_transaction(pend, k, n) == (pend \ PendingFor(pend, k)) \cup {<<k, n>>}

\* PendingRrcTransactions::match_transaction: the entry whose send end is
\* returned; none (the empty set) stands for None.  The caller takes one.
match_transaction(pend, k) == PendingFor(pend, k)

\* Transaction::recv on timeout or drop: the transaction unregisters itself.
unregister(pend, n) == {e \in pend : e[2] # n}

\* The next UlDcchMessage of any UE.
match_rrc_transaction_any(ue_id) == rrc_transactions

\* Worker::match_rrc_transaction.
match_rrc_transaction(ue_id) == match_transaction(rrc_transactions, ue_id)

\* The transaction that is created next.
NextTxn == CHOOSE n \in Txns : txKey[n] = 0 /\ \A m \in 1..(n - 1) : txKey[m] # 0

\* A UE is served while a DU is connected.
DuServesUes == "f1ap" \in listening /\ addrs["f1ap"] # {}

\* The transaction registered under the id the DU gave the UE.
NewRrcTransactionByDuId(k) ==
  /\ DuServesUes
  /\ \E n \in Txns : txKey[n] = 0
  /\ rrc_transactions' =
       new_transaction(rrc_transactions, UeState(k).gnb_du_ue_f1ap_id, NextTxn)
  /\ txKey' = [txKey EXCEPT ![NextTxn] = k]
  /\ txReplaced' =
       txReplaced \cup {e[2] : e \in rrc_transactions \ rrc_transactions'}
  /\ UNCHANGED <<workerVars, addrs, ngVars, updVars, storeVars, ueVars, txGot,
                 txDropped, lastUl, stackVars, tSeen>>

\* Worker::new_rrc_transaction(&ue), called by a workflow that is about to
\* send the UE a downlink RRC message that it expects a response to.
NewRrcTransaction(k) ==
  /\ DuServesUes
  /\ \E n \in Txns : txKey[n] = 0
  /\ rrc_transactions' =
       new_transaction(rrc_transactions, UeState(k).key, NextTxn)
  /\ txKey' = [txKey EXCEPT ![NextTxn] = k]
  /\ txReplaced' =
       txReplaced \cup {e[2] : e \in rrc_transactions \ rrc_transactions'}
  /\ UNCHANGED <<workerVars, addrs, ngVars, updVars, storeVars, ueVars, txGot,
                 txDropped, lastUl, stackVars, tSeen>>

\* The kinds of UlDcchMessage: the response to a downlink RRC message, and a
\* message the UE sends of its own accord (MockDu::send_nas).
UlKinds == {"SecurityModeComplete", "UlInformationTransfer"}

\* What the workflow that holds a transaction is waiting for.
Awaited == "SecurityModeComplete"

\* The entry stays in place when its send end is returned.
UlDcchMessageKeepEntry(k, kind) ==
  /\ DuServesUes
  /\ IF match_rrc_transaction(k) = {}
       THEN /\ lastUl' = <<k, 0, kind>>
            /\ UNCHANGED txGot
       ELSE \E e \in match_rrc_transaction(k) :
              /\ txGot' = [txGot EXCEPT ![e[2]] = IF @ < 2 THEN @ + 1 ELSE @]
              /\ lastUl' = <<k, e[2], kind>>
  /\ UNCHANGED <<workerVars, addrs, ngVars, updVars, storeVars, ueVars,
                 rrc_transactions, txKey, txReplaced, txDropped, stackVars,
                 tSeen>>

\* The send end is used only for the kind of message that is awaited.
UlDcchMessageOfAwaitedKind(k, kind) ==
  /\ DuServesUes
  /\ IF match_rrc_transaction(k) = {} \/ kind # Awaited
       THEN /\ lastUl' = <<k, 0, kind>>
            /\ UNCHANGED <<rrc_transactions, txGot>>
       ELSE \E e \in match_rrc_transaction(k) :
              /\ rrc_transactions' = rrc_transactions \ {e}
              /\ txGot' = [txGot EXCEPT ![e[2]] = @ + 1]
              /\ lastUl' = <<k, e[2], kind>>
  /\ UNCHANGED <<workerVars, addrs, ngVars, updVars, storeVars, ueVars, txKey,
                 txReplaced, txDropped, stackVars, tSeen>>

\* The F1AP handler on an UlRrcMessageTransfer that carries an UlDcchMessage
\* of UE k: it calls match_rrc_transaction, which is given the UE id and
\* nothing of the message, and sends the message into the send end it gets,
\* which completes the slot; on None the message is handled as unsolicited.
UlDcchMessage(k, kind) ==
  /\ DuServesUes
  /\ IF match_rrc_transaction(k) = {}
       THEN /\ lastUl' = <<k, 0, kind>>
            /\ UNCHANGED <<rrc_transactions, txGot>>
       ELSE \E e \in match_rrc_transaction(k) :
              /\ rrc_transactions' = rrc_transactions \ {e}
              /\ txGot' = [txGot EXCEPT ![e[2]] = @ + 1]
              /\ lastUl' = <<k, e[2], kind>>
  /\ UNCHANGED <<workerVars, addrs, ngVars, updVars, storeVars, ueVars, txKey,
                 txReplaced, txDropped, stackVars, tSeen>>

\* The workflow of transaction n is in Transaction::recv.
Live(n) == txKey[n] # 0 /\ txGot[n] = 0 /\ n \notin txDropped

\* Transaction::recv times out, or the transaction is dropped, before
\* anything was delivered to it.
TransactionDropped(n) ==
  /\ Live(n)
  /\ rrc_transactions' = unregister(rrc_transactions, n)
  /\ txDropped' = txDropped \cup {n}
  /\ UNCHANGED <<workerVars, addrs, ngVars, updVars, storeVars, ueVars, txKey,
                 txGot, txReplaced, lastUl, stackVars, tSeen>>

----------------------------------------------------------------------------
\* The UE state store: impl StateStore<UeState> for Worker, which passes
\* every call to the configured backend (Worker.ue_store).

\* The backend's store: the entry replaces any other of the key.
backend_store(st, k, ue, ttl) == [st EXCEPT ![k] = <<ue, ttl>>]

\* The backend's retrieve: the state of an entry that has not expired.
backend_retrieve(st, k) ==
  IF st[k] # <<>> /\ st[k][2] > 0 THEN st[k][1] ELSE NotFound

\* The backend's delete, which succeeds whether or not there is an entry.
backend_delete(st, k) == [st EXCEPT ![k] = <<>>]

\* What the call has to say about the key's history.
Prior(k) ==
  IF ueGhost[k].deleted THEN "deleted"
  ELSE IF ueGhost[k].val = NotFound THEN "never" ELSE "stored"

\* ttl_secs is not passed on: the entry gets the longest ttl.
store_default_ttl(k, ue, ttl_secs, ok) ==
  /\ lastOp' = [op |-> "store", k |-> k, res |-> IF ok THEN "Ok" ELSE "Err",
                val |-> ue, prior |-> Prior(k)]
  /\ IF ok
       THEN /\ ue_store' = backend_store(ue_store, k, ue, MaxTtl)
            /\ ueGhost' = [ueGhost EXCEPT ![k] =
                 [val |-> ue, ttl |-> ttl_secs, age |-> 0, deleted |-> FALSE,
                  stored |-> TRUE]]
       ELSE UNCHANGED <<ue_store, ueGhost>>

\* Worker::store(k, s, ttl_secs).  A store that fails changes nothing.
store(k, ue, ttl_secs, ok) ==
  /\ lastOp' = [op |-> "store", k |-> k, res |-> IF ok THEN "Ok" ELSE "Err",
                val |-> ue, prior |-> Prior(k)]
  /\ IF ok
       THEN /\ ue_store' = backend_store(ue_store, k, ue, ttl_secs)
            /\ ueGhost' = [ueGhost EXCEPT ![k] =
                 [val |-> ue, ttl |-> ttl_secs, age |-> 0, deleted |-> FALSE,
                  stored |-> TRUE]]
       ELSE UNCHANGED <<ue_store, ueGhost>>

\* A call of store by any user of the worker.
Store(k, ue, ttl_secs, ok) ==
  /\ store(k, ue, ttl_secs, ok)
  /\ UNCHANGED <<workerVars, addrs, ngVars, updVars, rrcVars, ueVars,
                 stackVars, tSeen>>

\* Worker::retrieve(&k), as a value.
retrieve(k) == backend_retrieve(ue_store, k)

Retrieve(k) ==
  /\ lastOp' = [op |-> "retrieve", k |-> k,
                res |-> IF retrieve(k) = NotFound THEN "NotFound" ELSE "Ok",
                val |-> retrieve(k), prior |-> Prior(k)]
  /\ UNCHANGED <<workerVars, addrs, ngVars, updVars, rrcVars, ue_store,
                 ueGhost, ueVars, stackVars, tSeen>>

\* A delete that looks the key up first and reports a missing one.
delete_result_checked(st, k) ==
  IF backend_retrieve(st, k) = NotFound THEN "NotFound" ELSE "Ok"

\* The result of Worker::delete(&k): that of the backend.
delete_result(st, k) == "Ok"

\* Worker::delete(&k).
delete(k) ==
  /\ lastOp' = [op |-> "delete", k |-> k, res |-> delete_result(ue_store, k),
                val |-> NotFound, prior |-> Prior(k)]
  /\ IF delete_result(ue_store, k) = "Ok"
       THEN /\ ue_store' = backend_delete(ue_store, k)
            /\ ueGhost' = [ueGhost EXCEPT ![k] =
                 [@ EXCEPT !.val = NotFound, !.ttl = 0, !.age = 0,
                           !.deleted = TRUE]]
       ELSE UNCHANGED <<ue_store, ueGhost>>

\* A call of delete by any user of the worker.
Delete(k) ==
  /\ delete(k)
  /\ UNCHANGED <<workerVars, addrs, ngVars, updVars, rrcVars, ueVars,
                 stackVars, tSeen>>

\* One tick of the entries' time to live.
TtlTick ==
  /\ \E k \in UeKeys : ue_store[k] # <<>> /\ ue_store[k][2] > 0
  /\ ue_store' = [k \in UeKeys |->
       IF ue_store[k] # <<>> /\ ue_store[k][2] > 0
         THEN <<ue_store[k][1], ue_store[k][2] - 1>> ELSE ue_store[k]]
  /\ ueGhost' = [k \in UeKeys |->
       IF ueGhost[k].age < ueGhost[k].ttl
         THEN [ueGhost[k] EXCEPT !.age = @ + 1] ELSE ueGhost[k]]
  /\ UNCHANGED <<workerVars, addrs, ngVars, updVars, rrcVars, lastOp, ueVars,
                 stackVars, tSeen>>

\* The in-memory backend's sweeper removes an expired entry.
Sweep(k) ==
  /\ ue_store[k] # <<>>
  /\ ue_store[k][2] = 0
  /\ ue_store' = [ue_store EXCEPT ![k] = <<>>]
  /\ UNCHANGED <<workerVars, addrs, ngVars, updVars, rrcVars, ueGhost, lastOp,
                 ueVars, stackVars, tSeen>>

----------------------------------------------------------------------------
\* The workflows of one UE: the initial attach as far as the RrcSetup, and
\* the release.

\* The two ids in each other's place.
DlRrcMessageTransferIdsSwapped(ue, srb_id, rrc_container) ==
  [gnb_cu_ue_f1ap_id |-> ue.gnb_du_ue_f1ap_id,
   gnb_du_ue_f1ap_id |-> ue.key,
   srb_id |-> srb_id,
   rrc_container |-> rrc_container]

\* The DlRrcMessageTransfer that send_rrc_to_ue builds.
DlRrcMessageTransfer(ue, srb_id, rrc_container) ==
  [gnb_cu_ue_f1ap_id |-> ue.key,
   gnb_du_ue_f1ap_id |-> ue.gnb_du_ue_f1ap_id,
   srb_id |-> srb_id,
   rrc_container |-> rrc_container]

\* Worker::send_rrc_to_ue: one DlRrcMessageTransfer, on the F1AP stack.
send_rrc_to_ue(ue, srb_id, rrc_container) ==
  /\ f1Dl' = f1Dl \cup {DlRrcMessageTransfer(ue, srb_id, rrc_container)}
  /\ lastDl' = [key |-> ue.key, srb_id |-> srb_id,
                rrc_container |-> rrc_container,
                sent |-> << <<"f1ap", DlRrcMessageTransfer(ue, srb_id,
                                                           rrc_container)>> >>]

\* The result of the store is not looked at.
AttachStoreUnchecked(k, ok) ==
  /\ DuServesUes
  /\ uePc[k] = "none"
  /\ store(k, 1, MaxTtl, ok)
  /\ uePc' = [uePc EXCEPT ![k] = "stored"]
  /\ UNCHANGED <<workerVars, addrs, ngVars, updVars, rrcVars, f1Dl, lastDl,
                 dlCount, duKnows, relComplete, stackVars, tSeen>>

\* An InitialUlRrcMessageTransfer arrives: the workflow allocates the
\* gnb_cu_ue_f1ap_id k, which no UE has yet, and stores the initial UE state
\* under it.  When the store fails the workflow is abandoned.
AttachStore(k, ok) ==
  /\ DuServesUes
  /\ uePc[k] = "none"
  /\ store(k, 1, MaxTtl, ok)
  /\ uePc' = [uePc EXCEPT ![k] = IF ok THEN "stored" ELSE "failed"]
  /\ UNCHANGED <<workerVars, addrs, ngVars, updVars, rrcVars, f1Dl, lastDl,
                 dlCount, duKnows, relComplete, stackVars, tSeen>>

\* The workflow sends the RrcSetup on SRB 0.
AttachSendRrcSetup(k) ==
  /\ uePc[k] = "stored"
  /\ send_rrc_to_ue(UeState(k), 0, "RrcSetup")
  /\ uePc' = [uePc EXCEPT ![k] = "setup_sent"]
  /\ UNCHANGED <<workerVars, addrs, ngVars, updVars, rrcVars, storeVars,
                 duKnows, relComplete, dlCount, stackVars, tSeen>>

\* MockDu::receive_rrc_setup: the DU takes the gnb_cu_ue_f1ap_id of the UE
\* from the DlRrcMessageTransfer on SRB 0.
DuReceiveRrcSetup(k) ==
  /\ \E msg \in f1Dl : msg.srb_id = 0 /\ msg.gnb_cu_ue_f1ap_id = k
  /\ k \notin duKnows
  /\ duKnows' = duKnows \cup {k}
  /\ UNCHANGED <<workerVars, addrs, ngVars, updVars, rrcVars, storeVars, uePc,
                 f1Dl, lastDl, dlCount, relComplete, stackVars, tSeen>>

\* The RRC messages that go down to a UE after its RrcSetup.
DlContainers == {"SecurityModeCommand", "RrcReconfiguration"}

\* A later step of a workflow of an attached UE calls send_rrc_to_ue with
\* the UE's state, an srb_id and a container.
SendRrcToUe(k, srb_id, rrc_container) ==
  /\ uePc[k] = "attached"
  /\ dlCount < MaxDl
  /\ dlCount' = dlCount + 1
  /\ send_rrc_to_ue(UeState(k), srb_id, rrc_container)
  /\ UNCHANGED <<workerVars, addrs, ngVars, updVars, rrcVars, storeVars, uePc,
                 duKnows, relComplete, stackVars, tSeen>>

\* MockDu::receive_dl_rrc: the DU, which waits for a message to the UE it
\* named ue_id, checks the gnb_du_ue_f1ap_id of the DlRrcMessageTransfer.
receive_dl_rrc(ue_id, dl_rrc_message_transfer) ==
  dl_rrc_message_transfer.gnb_du_ue_f1ap_id = ue_id

\* The rest of the attach: it completes, which takes a DU that answers under
\* the id it has learned, or it is abandoned on an error of a stack.
AttachFinish(k, ok) ==
  /\ uePc[k] = "setup_sent"
  /\ ok => k \in duKnows
  /\ uePc' = [uePc EXCEPT ![k] = IF ok THEN "attached" ELSE "failed"]
  /\ UNCHANGED <<workerVars, addrs, ngVars, updVars, rrcVars, storeVars, f1Dl,
                 lastDl, dlCount, duKnows, relComplete, stackVars, tSeen>>

\* UE release: the workflow sends the F1 UeContextReleaseCommand as a
\* request.
ReleaseBegin(k) ==
  /\ DuServesUes
  /\ uePc[k] = "attached"
  /\ uePc' = [uePc EXCEPT ![k] = "releasing"]
  /\ UNCHANGED <<workerVars, addrs, ngVars, updVars, rrcVars, storeVars, f1Dl,
                 lastDl, dlCount, duKnows, relComplete, stackVars, tSeen>>

\* The UE state is deleted whatever the request returned.
ReleaseReturnedDeleteAlways(k, out) ==
  /\ uePc[k] = "releasing"
  /\ delete(k)
  /\ IF out = "UeContextReleaseComplete"
       THEN /\ relComplete' = relComplete \cup {k}
            /\ uePc' = [uePc EXCEPT ![k] = "released"]
       ELSE /\ out \in RequestErrors
            /\ uePc' = [uePc EXCEPT ![k] = "release_failed"]
            /\ UNCHANGED relComplete
  /\ UNCHANGED <<workerVars, addrs, ngVars, updVars, rrcVars, f1Dl, lastDl,
                 dlCount, duKnows, stackVars, tSeen>>

\* The request returns.  With the UeContextReleaseComplete of the DU
\* (MockDu::handle_ue_context_release) the workflow deletes the UE state;
\* on an error it is abandoned.
ReleaseReturned(k, out) ==
  /\ uePc[k] = "releasing"
  /\ IF out = "UeContextReleaseComplete"
       THEN /\ relComplete' = relComplete \cup {k}
            /\ delete(k)
            /\ uePc' = [uePc EXCEPT ![k] = "released"]
       ELSE /\ out \in RequestErrors
            /\ uePc' = [uePc EXCEPT ![k] = "release_failed"]
            /\ UNCHANGED <<relComplete, storeVars>>
  /\ UNCHANGED <<workerVars, addrs, ngVars, updVars, rrcVars, f1Dl, lastDl,
                 dlCount, duKnows, stackVars, tSeen>>

----------------------------------------------------------------------------
\* Time.

\* A step that waits for nothing outside the worker is enabled.
Urgent ==
  \/ wPc \in {"spawn", "started", "run"}
  \/ wPc = "await_stop" /\ stopped
  \/ wPc = "drain" /\ shLock = "free"
  \/ \E t \in Tasks : tPc[t] \in {"read_ng", "read_f1", "read_e1"}
  \/ tPc[Periodic] = "wait" /\ (stopped \/ perLeft = 0)
  \/ \E i \in Workflows : wfPc[i] = "acked"

Tick ==
  /\ ~Urgent
  /\ perLeft' = IF tPc[Periodic] = "wait" THEN perLeft - 1 ELSE perLeft
  /\ sinceStop' = IF stopped /\ sinceStop <= IntervalTicks
                    THEN sinceStop + 1 ELSE sinceStop
  /\ UNCHANGED <<lifeVars, stopped, addrs, tPc, tFlags, tRead, tSent, tRes,
                 tWarned, wfVars, coordVars, histVars, sigVars, tSeen>>

----------------------------------------------------------------------------
Startup ==
  \/ SpawnBegin
  \/ \E ok \in BOOLEAN : ServeF1ap(ok)
  \/ \E ok \in BOOLEAN : ServeE1ap(ok)
  \/ \E ok \in BOOLEAN : ServeConnectionApi(ok)
  \/ StartServersOk
  \/ RunSpawnPeriodic

Shutdown ==
  \/ StopFire
  \/ RunStopObserved
  \/ RunPop
  \/ HandleShutdownDone
  \/ NgapShutdownDone
  \/ CoordinatorShutdownDone

Refreshing ==
  \/ \E t \in Tasks : ReadNg(t)
  \/ \E t \in Tasks : ReadF1(t)
  \/ \E t \in Tasks : ReadE1AndSend(t)
  \/ \E t \in Tasks : CoordinatorReceive(t)
  \/ \E res \in {"Ok", "Err"} : PeriodicRefreshReturned(res)
  \/ PeriodicWake
  \/ \E i \in Workflows, res \in {"Ok", "Err"} : AssociateRefreshReturned(i, res)

ConfigurationUpdate ==
  \/ \E i \in Workflows : CfgInvoke(i)
  \/ \E i \in Workflows, out \in {"Ack"} \cup RequestErrors :
       CfgRequestReturned(i, out)
  \/ \E i \in Workflows : CfgSpawnAssociate(i)

\* The worker from spawn to the end of run, with a DU as its only peer.
Next ==
  \/ Startup
  \/ Shutdown
  \/ Refreshing
  \/ ConfigurationUpdate
  \/ DuConnect
  \/ Tick

Spec == Init /\ [][Next]_vars

\* The worker in service: it is never stopped, and the peers of all three
\* stacks come and go.
NextInService ==
  \/ Startup
  \/ Refreshing
  \/ ConfigurationUpdate
  \/ NgapConnect
  \/ DuConnect
  \/ CuUpConnect
  \/ \E s \in DOMAIN addrs : AssociationLost(s)
  \/ Tick

SpecInService == Init /\ [][NextInService]_vars

----------------------------------------------------------------------------
\* The worker in service, with the up-states of the stacks recorded for
\* every task that is inside send_refresh_worker.

NgapConnectSeen ==
  /\ NgapConnectStep
  /\ tSeen' = Observe(addrs')

DuConnectSeen ==
  /\ DuConnectStep
  /\ tSeen' = Observe(addrs')

CuUpConnectSeen ==
  /\ CuUpConnectStep
  /\ tSeen' = Observe(addrs')

AssociationLostSeen(s) ==
  /\ AssociationLostStep(s)
  /\ tSeen' = Observe(addrs')

ReadNgSeen(t) ==
  /\ ReadNgStep(t)
  /\ tSeen' = [tSeen EXCEPT ![t] = {UpState(addrs)}]

ReadF1Seen(t) ==
  /\ ReadF1Step(t)
  /\ tSeen' = [tSeen EXCEPT ![t] = {v \in @ : v.f1_up = tFlags'[t].f1_up}]

ReadE1AndSendSeen(t) ==
  /\ ReadE1AndSendStep(t)
  /\ tSeen' = [tSeen EXCEPT ![t] = {}]

RefreshingSeen ==
  \/ \E t \in Tasks : ReadNgSeen(t)
  \/ \E t \in Tasks : ReadF1Seen(t)
  \/ \E t \in Tasks : ReadE1AndSendSeen(t)
  \/ \E t \in Tasks : CoordinatorReceive(t)
  \/ \E res \in {"Ok", "Err"} : PeriodicRefreshReturned(res)
  \/ PeriodicWake
  \/ \E i \in Workflows, res \in {"Ok", "Err"} :
       AssociateRefreshReturned(i, res)

NextSnapshot ==
  \/ Startup
  \/ RefreshingSeen
  \/ ConfigurationUpdate
  \/ NgapConnectSeen
  \/ DuConnectSeen
  \/ CuUpConnectSeen
  \/ \E s \in DOMAIN addrs : AssociationLostSeen(s)
  \/ Tick

SpecSnapshot == Init /\ [][NextSnapshot]_vars

\* What the executor and the peers guarantee: a task that can run is run, a
\* request returns (with the response or by its timeout), a listener's
\* graceful shutdown and the stacks' shutdown terminate.
Fairness ==
  /\ \A i \in Workflows :
       /\ WF_vars(\E out \in {"Ack"} \cup RequestErrors : CfgRequestReturned(i, out))
       /\ WF_vars(CfgSpawnAssociate(i))
  /\ WF_vars(RunSpawnPeriodic)
  /\ WF_vars(RunStopObserved)
  /\ WF_vars(RunPop)
  /\ WF_vars(HandleShutdownDone)
  /\ WF_vars(NgapShutdownDone)
  /\ WF_vars(CoordinatorShutdownDone)

FairSpec == Spec /\ Fairness

NgSetup ==
  \/ \E j \in NgSetups : NgSetupInvoke(j)
  \/ \E j \in NgSetups, ok \in BOOLEAN : NgapConnectReturned(j, ok)
  \/ \E j \in NgSetups, out \in {"NgSetupResponse"} \cup RequestErrors :
       NgapRequestReturned(j, out)

\* The worker is started and ng_setup is run, more than once; the AMF may
\* drop the NG associations.
NextNgSetup ==
  \/ Startup
  \/ NgSetup
  \/ AssociationLost("ngap")

SpecNgSetup == Init /\ [][NextNgSetup]_vars

\* The AMF closes the NG associations of a worker that has completed an NG
\* Setup.
AmfDropsNg == ngInfo # {} /\ AssociationLost("ngap")

\* The worker is started and is never stopped, ng_setup is run, the AMF may
\* drop the NG associations afterwards, and the periodic task refreshes the
\* coordinator while time passes.
NextNgRefresh ==
  \/ Startup
  \/ NgSetup
  \/ AmfDropsNg
  \/ ReadNg(Periodic)
  \/ ReadF1(Periodic)
  \/ ReadE1AndSend(Periodic)
  \/ CoordinatorReceive(Periodic)
  \/ \E res \in {"Ok", "Err"} : PeriodicRefreshReturned(res)
  \/ PeriodicWake
  \/ Tick

\* The executor runs a task that can run, the three reads of
\* send_refresh_worker complete, refresh_worker returns, and time passes.
FairnessNgRefresh ==
  /\ WF_vars(Startup)
  /\ WF_vars(ReadNg(Periodic))
  /\ WF_vars(ReadF1(Periodic))
  /\ WF_vars(ReadE1AndSend(Periodic))
  /\ WF_vars(\E res \in {"Ok", "Err"} : PeriodicRefreshReturned(res))
  /\ WF_vars(PeriodicWake)
  /\ WF_vars(Tick)

SpecNgRefresh == Init /\ [][NextNgRefresh]_vars /\ FairnessNgRefresh

\* The worker is started, a DU connects, and callers enter the configuration
\* update workflow without waiting for one another.
NextF1apRequests ==
  \/ Startup
  \/ DuConnect
  \/ \E c \in Callers : UpdInvoke(c)
  \/ \E c \in Callers, out \in {"Ack"} \cup RequestErrors :
       UpdRequestReturned(c, out)
  \/ \E kind \in PduKinds, tid \in TransactionIds : DuSends(kind, tid)
  \/ \E p \in f1Wire : F1apReceive(p)

SpecF1apRequests == Init /\ [][NextF1apRequests]_vars

\* The worker is started, a DU connects, and workflows and uplink messages
\* of its UEs use the pending RRC transactions.
NextRrc ==
  \/ Startup
  \/ DuConnect
  \/ \E k \in UeKeys : NewRrcTransaction(k)
  \/ \E k \in UeKeys, kind \in UlKinds : UlDcchMessage(k, kind)
  \/ \E n \in Txns : TransactionDropped(n)

SpecRrc == Init /\ [][NextRrc]_vars

\* Calls of the worker's store, retrieve and delete, while the entries age.
NextUeStore ==
  \/ \E k \in UeKeys, ue \in UeStates, ttl \in Ttls, ok \in BOOLEAN :
       Store(k, ue, ttl, ok)
  \/ \E k \in UeKeys : Retrieve(k)
  \/ \E k \in UeKeys : Delete(k)
  \/ TtlTick
  \/ \E k \in UeKeys : Sweep(k)

SpecUeStore == Init /\ [][NextUeStore]_vars

\* The worker is started, a DU connects, and its UEs attach and are
\* released.
NextUe ==
  \/ Startup
  \/ DuConnect
  \/ \E k \in UeKeys, ok \in BOOLEAN : AttachStore(k, ok)
  \/ \E k \in UeKeys : AttachSendRrcSetup(k)
  \/ \E k \in UeKeys : DuReceiveRrcSetup(k)
  \/ \E k \in UeKeys, ok \in BOOLEAN : AttachFinish(k, ok)
  \/ \E k \in UeKeys : ReleaseBegin(k)
  \/ \E k \in UeKeys,
        out \in {"UeContextReleaseComplete"} \cup RequestErrors :
       ReleaseReturned(k, out)

SpecUe == Init /\ [][NextUe]_vars

\* The worker is started, a DU connects, its UEs attach and RRC messages go
\* down to the UEs that are attached.
NextDlRrc ==
  \/ Startup
  \/ DuConnect
  \/ \E k \in UeKeys, ok \in BOOLEAN : AttachStore(k, ok)
  \/ \E k \in UeKeys : AttachSendRrcSetup(k)
  \/ \E k \in UeKeys : DuReceiveRrcSetup(k)
  \/ \E k \in UeKeys, ok \in BOOLEAN : AttachFinish(k, ok)
  \/ \E k \in UeKeys, srb_id \in SrbIds, rrc_container \in DlContainers :
       SendRrcToUe(k, srb_id, rrc_container)

SpecDlRrc == Init /\ [][NextDlRrc]_vars

----------------------------------------------------------------------------
\* Properties.

ReadPositions == {"read_ng", "read_f1", "read_e1"}

IsPrefix(a, b) ==
  /\ Len(a) <= Len(b)
  /\ \A k \in 1..Len(a) : a[k] = b[k]

RECURSIVE Reverse(_)
Reverse(a) == IF a = <<>> THEN <<>> ELSE Append(Reverse(Tail(a)), Head(a))

Occurrences(a, x) == Cardinality({k \in 1..Len(a) : a[k] = x})

IsHandle(x) == x # "periodic"

\* The handles registered so far, in the order of registration.
Registered == SelectSeq(startOrder, IsHandle)

\* A step in which a tick goes by.
TimePasses ==
  \/ sinceStop' > sinceStop
  \/ tPc[Periodic] = "wait" /\ tPc'[Periodic] = "wait" /\ perLeft' < perLeft

RunReturned == wPc \in {"coordinator_shutdown", "done"}

\* C1: a configuration update workflow whose request is out, or acknowledged,
\* always returns to its caller, whatever the coordinator does meanwhile; and
\* when it has returned Ok its associate_connection task has been started.
C1_WorkflowNeverWaitsForCoordinator ==
  /\ \A i \in Workflows :
       (wfPc[i] \in {"request", "acked"}) ~> (wfPc[i] \in {"ok", "err"})
  /\ [](\A i \in Workflows : wfPc[i] = "ok" => tPc[i] # "none")

\* The workflow has returned Ok while the RefreshWorker of its task is still
\* waiting for the coordinator.
C1_Witness ==
  \E i \in Workflows : wfPc[i] = "ok" /\ tPc[i] = "call" /\ coordWaiting = 0

\* C2: an associate_connection task exists only for a workflow whose request
\* returned the acknowledge; a workflow whose request failed has returned the
\* error, and has no task and no RefreshWorker.
C2_AssociateOnlyAfterAcknowledge ==
  \A i \in Workflows :
    /\ tPc[i] # "none" => wfAcked[i] /\ wfPc[i] = "ok"
    /\ wfPc[i] = "err" => ~wfAcked[i] /\ tPc[i] = "none" /\ tSent[i] = 0
    /\ wfPc[i] \in {"idle", "request"} => tPc[i] = "none"

C2_Witness ==
  \E i \in Workflows : wfPc[i] = "err" /\ coordWaiting = 0

\* C3: more than one interval after the stop, a periodic task that was
\* running when the stop fired, waiting on its timer or inside
\* send_refresh_worker, has exited.
C3_PeriodicExitsWithinInterval ==
  (stopped /\ perAtStop /\ sinceStop > IntervalTicks)
    => tPc[Periodic] = "exited"

\* C4: when a Coordinated worker sent a refresh before the stop, the
\* coordinator receives no RefreshWorker from it more than one interval
\* after the stop.
C4_NoRefreshLaterThanInterval ==
  (style = "Coordinated" /\ sentBeforeStop) => ~lateRefresh

\* C5: when a refresh call of the periodic task returns, also with an error,
\* the task goes on to its timer, set to one interval, with a warning logged
\* for an error, and the worker is not stopped; it leaves the timer for the
\* next refresh when the interval is over, and exits only on the stop token.
C5_FailedRefreshIsRetried ==
  /\ [][(tPc[Periodic] \in {"call", "answered"}
          /\ tPc'[Periodic] \notin {"call", "answered"})
        => /\ tPc'[Periodic] = "wait"
           /\ perLeft' = IntervalTicks
           /\ tRes'[Periodic] = "Err" => tWarned'[Periodic]
           /\ stopped' = stopped
           /\ wPc' = wPc]_vars
  /\ [][(tPc[Periodic] = "wait" /\ tPc'[Periodic] # "wait")
        => IF stopped THEN tPc'[Periodic] = "exited"
                      ELSE perLeft = 0 /\ tPc'[Periodic] = "read_ng"]_vars
  /\ [][tPc'[Periodic] = "exited" => stopped]_vars

\* The periodic task is at its next refresh after a failed one.
C5_Witness ==
  /\ tPc[Periodic] = "call"
  /\ tRes[Periodic] = "Err"
  /\ tWarned[Periodic]
  /\ ~stopped

\* C6: the flags of a RefreshWorker on its way to the coordinator are the
\* non-emptiness of the address sets that this refresh read.
C6_FlagsAreWhatWasRead ==
  \A t \in Tasks :
    /\ tPc[t] = "call" =>
         tFlags[t] = [ng_up |-> tRead[t].ng # {},
                      f1_up |-> tRead[t].f1 # {},
                      e1_up |-> tRead[t].e1 # {}]
    /\ tPc[t] = "read_f1" => tFlags[t].ng_up = (tRead[t].ng # {})
    /\ tPc[t] = "read_e1" => /\ tFlags[t].ng_up = (tRead[t].ng # {})
                             /\ tFlags[t].f1_up = (tRead[t].f1 # {})

\* A second refresh of the periodic task says that NG is down, after a first
\* that found it up; its f1_up is true although the DU has gone since.
C6_Witness ==
  /\ tPc[Periodic] = "call"
  /\ tRes[Periodic] # "none"
  /\ tFlags[Periodic] = [ng_up |-> FALSE, f1_up |-> TRUE, e1_up |-> TRUE]
  /\ addrs["f1ap"] = {}

\* C7: an associate_connection task sends one RefreshWorker and no more; when
\* it has completed it has sent exactly one, and has logged a warning if that
\* one failed.  It sends with no time passing since it was spawned.
C7_AssociateSendsOneRefresh ==
  /\ [](\A i \in Workflows :
          /\ tSent[i] <= 1
          /\ tPc[i] \in {"call", "answered", "done"} => tSent[i] = 1
          /\ tPc[i] = "done" /\ tRes[i] = "Err" => tWarned[i]
          /\ tPc[i] # "wait")
  /\ [][(\E i \in Workflows : tPc[i] \in ReadPositions) => ~TimePasses]_vars

\* The task has completed after a failed refresh, while the periodic task is
\* in the middle of its interval.
C7_Witness ==
  \E i \in Workflows :
    /\ tPc[i] = "done" /\ tRes[i] = "Err" /\ tSent[i] = 1
    /\ tPc[Periodic] = "wait" /\ perLeft > 0

CoordinatedStartOrder == <<"f1ap", "e1ap", "connection_api", "periodic">>

\* C8: in Coordinated mode the start-up steps that have succeeded are an
\* initial part of F1AP, E1AP, Connection API, periodic task; a failed step
\* ends the start-up; the worker waits for the stop token, or is beyond that,
\* only with all four done.
C8_CoordinatedStartOrder ==
  style = "Coordinated" =>
    /\ IsPrefix(startOrder, CoordinatedStartOrder)
    /\ wPc = "serve_e1ap" => startOrder = <<"f1ap">>
    /\ wPc = "serve_connection_api" => startOrder = <<"f1ap", "e1ap">>
    /\ wPc \in {"started", "run"} => startOrder = <<"f1ap", "e1ap", "connection_api">>
    /\ wPc \in {"await_stop", "drain", "graceful", "ngap_shutdown", "done"}
         => startOrder = CoordinatedStartOrder
    /\ tPc[Periodic] # "none" => startOrder = CoordinatedStartOrder
    /\ wPc = "failed" => Len(startOrder) < 3 /\ tPc[Periodic] = "none"

C8_Witness ==
  style = "Coordinated" /\ wPc = "await_stop" /\ ~stopped

\* C9: handles are shut down only after the stop, in the reverse of the order
\* of their registration, the next one begun when the one before has
\* finished, and the NG stack after all of them.
C9_ReverseOrderShutdown ==
  /\ IsPrefix(shutOrder, Append(Reverse(Registered), "ngap"))
  /\ (shutOrder # <<>> \/ shutting # "none") => stopped
  /\ wPc = "graceful" =>
       /\ Len(shutOrder) < Len(Registered)
       /\ shutting = Reverse(Registered)[Len(shutOrder) + 1]
       /\ Registered = Append(shutdown_handles, shutting) \o Reverse(shutOrder)
  /\ wPc # "graceful" => shutting = "none"

C9_Witness ==
  shutOrder = <<"connection_api", "e1ap", "f1ap", "ngap">>

\* C10: once the stop token has fired, run returns; and when it has returned
\* the list of handles is empty, every handle registered has been shut down
\* exactly once, and the NG stack has been shut down.
C10_RunTerminatesDrained ==
  /\ (stopped /\ wPc \in {"run", "await_stop", "drain", "graceful", "ngap_shutdown"})
       ~> RunReturned
  /\ [](RunReturned =>
          /\ shutdown_handles = <<>>
          /\ \A k \in 1..Len(Registered) : Occurrences(shutOrder, Registered[k]) = 1
          /\ Occurrences(shutOrder, "ngap") = 1
          /\ listening = {})

C10_Witness ==
  /\ wPc = "done"
  /\ Len(Registered) = 3
  /\ Len(shutOrder) = 4

\* C11: an Autonomous worker has its embedded coordinator running at every
\* step that brings up one of its listeners, the F1AP listener first among
\* them, and never has a Connection API server; a Connection API server that
\* is up belongs to a Coordinated worker.
C11_AutonomousCoordinatorFirst ==
  [][/\ (style = "Autonomous" /\ listening' \ listening # {})
          => coordStarted
     /\ "connection_api" \in listening' => style = "Coordinated"
     /\ (style = "Autonomous" /\ startOrder' # <<>>)
          => startOrder'[1] = "f1ap"]_vars

C11_Witness ==
  /\ style = "Autonomous"
  /\ coordStarted
  /\ wPc = "run"
  /\ listening = {"f1ap", "e1ap"}
  /\ startOrder = <<"f1ap", "e1ap">>

\* C12: a run of ng_setup has handed an NgSetupRequest to the NGAP stack only
\* if its ngap_connect returned Ok; a run whose ngap_connect failed has
\* returned an error and has sent no request.
C12_RequestOnlyAfterConnect ==
  \A j \in NgSetups :
    /\ j \in ngSent => (ngRes[j] # <<>> /\ ngRes[j][1] = "Ok")
    /\ (ngRes[j] # <<>> /\ ngRes[j][1] = "Err")
         => (ngPc[j] = "err" /\ j \notin ngSent /\ Len(ngRes[j]) = 1)

C12_Witness ==
  /\ ngRes[1] = <<"Err">>
  /\ ngPc[1] = "err"
  /\ 2 \in ngSent
  /\ ngRes[2][1] = "Ok"

\* C13: a run of ng_setup has returned Ok exactly when its connect succeeded
\* and its request returned the NgSetupResponse; it has returned an error
\* exactly when the last call into the stack failed, and then the success
\* log is not written and the workflow can be entered again.
C13_OkIffConnectedAndResponse ==
  \A j \in NgSetups :
    /\ ngPc[j] = "ok" <=> ngRes[j] = <<"Ok", "NgSetupResponse">>
    /\ ngPc[j] = "err" <=>
         \/ ngRes[j] = <<"Err">>
         \/ Len(ngRes[j]) = 2 /\ ngRes[j][1] = "Ok"
                              /\ ngRes[j][2] \in RequestErrors
    /\ j \in ngInfo <=> ngPc[j] = "ok"
    /\ (ngPc[j] = "err" /\ j + 1 \in NgSetups /\ ngPc[j + 1] = "idle"
          /\ InService) => ENABLED NgSetupInvoke(j + 1)

C13_Witness ==
  /\ ngPc[1] = "err"
  /\ ngRes[1] = <<"Ok", "UnsuccessfulOutcome">>
  /\ ngPc[2] = "ok"
  /\ 2 \in ngInfo

\* C14: a connect made while the worker has an NG association to the AMF
\* opens no further association.
C14_ConnectTwiceOpensOne ==
  [][addrs["ngap"] # {} => addrs'["ngap"] \subseteq addrs["ngap"]]_vars

\* C15: each of the three stacks has at most one association.
C15_AtMostOneAssociation ==
  \A s \in DOMAIN addrs : Cardinality(addrs[s]) <= 1

\* C16: two requests that are outstanding on the F1AP stack at the same time
\* carry different transaction ids.
C16_OutstandingIdsDistinct ==
  \A c, d \in Callers :
    (c # d /\ updPc[c] = "request" /\ updPc[d] = "request")
      => updTid[c] # updTid[d]

\* C17: while run awaits the graceful shutdown of a handle, nobody holds the
\* mutex of shutdown_handles, so that add_shutdown_handle can take it.
C17_NoLockAcrossGracefulShutdown ==
  wPc = "graceful" => shLock = "free"

\* C18: at most one RRC transaction is pending for a UE key.
C18_OnePendingPerKey ==
  \A k \in UeKeys : Cardinality(PendingFor(rrc_transactions, k)) <= 1

C18_Witness ==
  /\ txReplaced # {}
  /\ \A k \in UeKeys : PendingFor(rrc_transactions, k) # {}

\* The step creates an RRC transaction.
TxnCreated == txKey' # txKey

\* The step handles an UlDcchMessage.
UlHandled == lastUl' # lastUl \/ txGot' # txGot

\* C19: once new_rrc_transaction has run for a UE key, the entry pending for
\* the key is that of the new transaction alone, whatever was pending
\* before; an uplink message is delivered only to the newest transaction
\* of its UE, and a transaction whose entry was replaced has received none.
C19_NewTransactionReplaces ==
  /\ [][TxnCreated =>
          PendingFor(rrc_transactions', txKey'[NextTxn]) =
            {<<txKey'[NextTxn], NextTxn>>}]_vars
  /\ [][(UlHandled /\ lastUl'[2] # 0) =>
          /\ txKey[lastUl'[2]] = lastUl'[1]
          /\ \A m \in Txns : txKey[m] = lastUl'[1] => m <= lastUl'[2]]_vars
  /\ [](\A n \in txReplaced : txGot[n] = 0)

C19_Witness ==
  /\ txKey[1] = 1
  /\ txKey[2] = 1
  /\ txReplaced = {1}
  /\ txGot[1] = 0
  /\ txGot[2] = 1
  /\ lastUl[1] = 1
  /\ lastUl[2] = 2

\* C20: an UlDcchMessage of UE k is delivered to a transaction exactly when
\* one is pending for k, and then to that one; when none is pending the
\* message is unsolicited and no transaction receives it.
C20_MatchIffPending ==
  [][UlHandled =>
      IF PendingFor(rrc_transactions, lastUl'[1]) = {}
        THEN lastUl'[2] = 0 /\ txGot' = txGot
        ELSE /\ <<lastUl'[1], lastUl'[2]>> \in rrc_transactions
             /\ txGot' = [txGot EXCEPT ![lastUl'[2]] = @ + 1]]_vars

C20_Witness ==
  /\ lastUl[1] = 2
  /\ lastUl[2] = 0
  /\ PendingFor(rrc_transactions, 1) # {}
  /\ PendingFor(rrc_transactions, 2) = {}
  /\ \E n \in Txns : txGot[n] = 1

\* C30: when a listener of start_servers could not be started, spawn has
\* returned an error, in either connection style.
C30_FailedStartupIsReported ==
  wPc \in {"failed", "panicked"} => spawnRet = "Err"

\* C21: the entry of a transaction is gone once a message was delivered to
\* it or it timed out or was dropped, so every pending entry belongs to a
\* transaction that is still waiting, and no transaction receives more than
\* one uplink message.
C21_EntryRemovedOnDeliveryOrDrop ==
  /\ \A n \in Txns : txGot[n] <= 1
  /\ \A e \in rrc_transactions : Live(e[2])

C21_Witness ==
  /\ txGot[1] = 1
  /\ 2 \in txDropped
  /\ txKey[1] = txKey[2]
  /\ lastUl[1] = txKey[1]
  /\ lastUl[2] = 0
  /\ PendingFor(rrc_transactions, txKey[1]) = {}

\* C22: while a transaction is pending for a UE, an UlDcchMessage of that UE
\* is delivered to it whatever its kind, the kind that is awaited or not.
C22_AnyKindCompletes ==
  [][\A kind \in UlKinds :
       (UlHandled /\ lastUl'[3] = kind
         /\ PendingFor(rrc_transactions, lastUl'[1]) # {})
       => /\ lastUl'[2] # 0
          /\ txGot'[lastUl'[2]] = txGot[lastUl'[2]] + 1]_vars

C22_Witness ==
  /\ lastUl[3] = "UlInformationTransfer"
  /\ lastUl[3] # Awaited
  /\ lastUl[2] # 0
  /\ txGot[lastUl[2]] = 1

\* C23: no two transactions of the same UE are waiting at the same time.
C23_OneWorkflowPerUe ==
  \A n, m \in Txns :
    (n # m /\ Live(n) /\ Live(m)) => txKey[n] # txKey[m]

\* C24: retrieve(k) returns the state of the last successful store of k when
\* k was not deleted since and that store's ttl has not run out, and
\* NotFound when it has run out.
C24_RetrieveWithinTtl ==
  \A k \in UeKeys :
    (ueGhost[k].val # NotFound) =>
      retrieve(k) = IF ueGhost[k].age < ueGhost[k].ttl
                      THEN ueGhost[k].val ELSE NotFound

C24_Witness ==
  /\ lastOp.op = "retrieve"
  /\ lastOp.res = "NotFound"
  /\ ueGhost[lastOp.k].val # NotFound
  /\ ueGhost[lastOp.k].age = ueGhost[lastOp.k].ttl
  /\ \E k \in UeKeys : retrieve(k) = 2 /\ ueGhost[k].age = 1

C26_DeleteAfterReleaseComplete ==
  \A k \in UeKeys :
    /\ ueGhost[k].deleted => k \in relComplete
    /\ uePc[k] = "released" => retrieve(k) = NotFound
    /\ uePc[k] = "release_failed"
         => (retrieve(k) # NotFound /\ ~ueGhost[k].deleted)

C26_Witness ==
  /\ uePc[1] = "released"
  /\ lastOp.op = "delete"
  /\ uePc[2] = "release_failed"

\* C27: every gnb_cu_ue_f1ap_id that a DlRrcMessageTransfer carries, and
\* so every one the DU has learned, is the key of a UE state that was
\* stored before the message was sent.
C27_StoredBeforeRrcSetup ==
  /\ \A msg \in f1Dl : ueGhost[msg.gnb_cu_ue_f1ap_id].stored
  /\ \A id \in duKnows : id \in UeKeys /\ ueGhost[id].stored

C27_Witness ==
  /\ uePc[1] = "failed"
  /\ ~ueGhost[1].stored
  /\ 2 \in duKnows
  /\ \E msg \in f1Dl : msg.gnb_cu_ue_f1ap_id = 2 /\ msg.srb_id = 0
\* C28: the pending-transaction table of the stack holds an entry only for a
\* request whose future is alive, and a request made after another was
\* dropped completes with its own response and never with the one that
\* answers the dropped request, also when both carry one transaction id.
C28_DroppedRequestLeavesIdReusable ==
  /\ \A e \in f1Pending : updPc[e.c] = "request"
  /\ \A c \in Callers : f1Got[c].re \notin updAfter[c]

\* C29: when the stack receives a SuccessfulOutcome or UnsuccessfulOutcome
\* whose transaction id no pending request has, no request completes, no
\* delivery slot is filled and the handler is not invoked.
C29_UnmatchedOutcomeDropped ==
  [][\A p \in f1Wire :
       ( /\ f1Wire' = f1Wire \ {p}
         /\ p.kind \in Outcomes
         /\ Matching(f1Pending, p) = {} )
       => /\ f1Pending' = f1Pending
          /\ f1Got' = f1Got
          /\ updPc' = updPc
          /\ f1Handled' = f1Handled]_vars

\* The reply to a request that timed out arrives when nothing is pending,
\* after the handler has been given an InitiatingMessage.
C29_Witness ==
  /\ f1Rx.res = "dropped"
  /\ f1Rx.re = 1
  /\ updPc[1] = "err"
  /\ f1Pending = {}
  /\ f1Handled # {}

\* C31: a call of send_rrc_to_ue sends one PDU, on the F1AP stack: the
\* DlRrcMessageTransfer with the key of the UE as gnb_cu_ue_f1ap_id, the id
\* stored in the UE state as gnb_du_ue_f1ap_id, and the srb_id and the
\* container of the call.  Every DlRrcMessageTransfer sent passes the check
\* the DU makes against the id it gave that UE.
C31_OneDlRrcMessageTransferWithUeIds ==
  /\ lastDl # NoDl =>
       /\ Len(lastDl.sent) = 1
       /\ lastDl.sent[1][1] = "f1ap"
       /\ lastDl.sent[1][2] \in f1Dl
       /\ lastDl.sent[1][2] =
            [gnb_cu_ue_f1ap_id |-> lastDl.key,
             gnb_du_ue_f1ap_id |-> UeState(lastDl.key).gnb_du_ue_f1ap_id,
             srb_id |-> lastDl.srb_id,
             rrc_container |-> lastDl.rrc_container]
       /\ receive_dl_rrc(DuUeId(lastDl.key), lastDl.sent[1][2])
  /\ \A msg \in f1Dl :
       /\ msg.gnb_cu_ue_f1ap_id \in UeKeys
       /\ receive_dl_rrc(DuUeId(msg.gnb_cu_ue_f1ap_id), msg)

\* UE 1 got its RrcSetup on SRB 0 and later a SecurityModeCommand on SRB 1.
C31_Witness ==
  /\ lastDl.key = 1
  /\ lastDl.srb_id = 1
  /\ lastDl.rrc_container = "SecurityModeCommand"
  /\ Cardinality({msg \in f1Dl : msg.gnb_cu_ue_f1ap_id = 1}) = 2

\* C32: once spawn has returned Ok, and until the stop token fires, the F1AP
\* and the E1AP listener are listening, in either connection style.
C32_ListeningWhenSpawnReturns ==
  (spawnRet = "Ok" /\ ~stopped) => {"f1ap", "e1ap"} \subseteq listening

\* C33: when run has returned, the periodic refresh task has exited and no
\* associate_connection task is still running, and no task sends a
\* RefreshWorker once the NG stack has been shut down.
C33_NoTaskOutlivesRun ==
  /\ [](wPc = "done" =>
          /\ tPc[Periodic] \in {"none", "exited"}
          /\ \A i \in Workflows : tPc[i] \in {"none", "done"})
  /\ [][\A t \in Tasks :
          (tPc[t] = "read_e1" /\ tPc'[t] = "call")
            => ~(\E n \in 1..Len(shutOrder) : shutOrder[n] = "ngap")]_vars

\* C34: after a failed start-up of a Coordinated worker none of its
\* listeners is listening, the periodic refresh task was not started and
\* spawn has returned the error without spawning the task that runs run.
C34_FailedStartupLeavesNothing ==
  (style = "Coordinated" /\ wPc = "failed") =>
    /\ listening = {}
    /\ tPc[Periodic] = "none"
    /\ spawnRet = "Err"

\* C35: the flags of every RefreshWorker that is sent are the up-states
\* that the three stacks had together at one moment between the first read
\* of that refresh and its last.
C35_FlagsAreOneSnapshot ==
  [][\A t \in Tasks :
       (tPc[t] = "read_e1" /\ tPc'[t] = "call") => tFlags'[t] \in tSeen[t]]_vars

====
